---- MODULE Spec2Model ----
(***************************************************************************)
(* Model of the circuit builders of qutilities: QFT / QFTGate              *)
(* (src/qutilities/QFT/QFT.py) and QPE (src/qutilities/qpe/qpe.py).        *)
(*                                                                         *)
(* A circuit is the record [num_qubits, num_clbits, data]; data is the     *)
(* ordered list of instructions, each [name, params, qubits, clbits].      *)
(* Angles are kept exactly, in units of pi, as [num, den] (num/den * pi).  *)
(* An optional value is <<>> (None) or <<v>>.                              *)
(***************************************************************************)
EXTENDS Integers, Sequences, FiniteSets, TLC

\* ---------------------------------------------------------------- bounds
MaxQubits == 8
MaxLevel == 9
MaxControl == 3
MaxPhase == 2
MaxBuilds == 3

\* ------------------------------------------------------------ primitives
None == <<>>
Some(v) == <<v>>

RECURSIVE Pow2(_)
Pow2(k) == IF k <= 0 THEN 1 ELSE 2 * Pow2(k - 1)

Abs(x) == IF x < 0 THEN 0 - x ELSE x

\* pi / (2 ** distance), in units of pi
PiOver(distance) == [num |-> 1, den |-> Pow2(distance)]
Neg(angle) == [num |-> 0 - angle.num, den |-> angle.den]

Instr(name, params, qubits, clbits) ==
    [name |-> name, params |-> params, qubits |-> qubits, clbits |-> clbits]

NewCircuit(nq, nc) == [num_qubits |-> nq, num_clbits |-> nc, data |-> <<>>]
Emit(circuit, ins) == [circuit EXCEPT !.data = Append(@, ins)]
Extend(circuit, instrs) == [circuit EXCEPT !.data = @ \o instrs]

Op_h(circuit, q) == Emit(circuit, Instr("h", <<>>, <<q>>, <<>>))
Op_x(circuit, q) == Emit(circuit, Instr("x", <<>>, <<q>>, <<>>))
Op_barrier(circuit) ==
    Emit(circuit, Instr("barrier", <<>>, [i \in 1..circuit.num_qubits |-> i - 1], <<>>))

\* keyword-argument binding of a Python call
Arg(kwargs, name, default) == IF name \in DOMAIN kwargs THEN kwargs[name] ELSE default

\* ------------------------------------------------------------------ QFT
QFT_params == {"qft_qubits", "inverse", "do_swaps", "approximation_level",
               "debug", "insert_barrier", "label"}

\* variant: zero qubits are let through
QFT_init_nonnegative(kwargs) ==
    IF ~(DOMAIN kwargs \subseteq QFT_params) \/ "qft_qubits" \notin DOMAIN kwargs
    THEN [exc |-> "TypeError", self |-> None]
    ELSE IF kwargs.qft_qubits = None \/ kwargs.qft_qubits[1] < 0
    THEN [exc |-> "ValueError", self |-> None]
    ELSE [exc |-> "",
          self |-> Some([qft_qubits |-> kwargs.qft_qubits[1],
                         inverse |-> Arg(kwargs, "inverse", FALSE),
                         do_swaps |-> Arg(kwargs, "do_swaps", FALSE),
                         approximation_level |-> Arg(kwargs, "approximation_level", 0),
                         insert_barrier |-> Arg(kwargs, "insert_barrier", FALSE)])]

\* QFT.__init__ called with keyword arguments kwargs; qft_qubits is Some(n) or None
QFT_init(kwargs) ==
    IF ~(DOMAIN kwargs \subseteq QFT_params) \/ "qft_qubits" \notin DOMAIN kwargs
    THEN [exc |-> "TypeError", self |-> None]
    ELSE IF kwargs.qft_qubits = None \/ kwargs.qft_qubits[1] < 1
    THEN [exc |-> "ValueError", self |-> None]
    ELSE [exc |-> "",
          self |-> Some([qft_qubits |-> kwargs.qft_qubits[1],
                         inverse |-> Arg(kwargs, "inverse", FALSE),
                         do_swaps |-> Arg(kwargs, "do_swaps", FALSE),
                         approximation_level |-> Arg(kwargs, "approximation_level", 0),
                         insert_barrier |-> Arg(kwargs, "insert_barrier", FALSE)])]

\* variant: the forward transform also visits lowest to highest
QFT_qubit_range_ascending(self) ==
    [i \in 1..self.qft_qubits |-> i - 1]

QFT_qubit_range(self) ==
    IF self.inverse
    THEN [i \in 1..self.qft_qubits |-> i - 1]
    ELSE [i \in 1..self.qft_qubits |-> self.qft_qubits - i]

QFT_target_range(self, control_qubit) ==
    IF self.inverse
    THEN [i \in 1..(self.qft_qubits - 1 - control_qubit) |-> control_qubit + i]
    ELSE [i \in 1..control_qubit |-> control_qubit - i]

\* variant: the cutoff is taken from the magnitude of the level
QFT_should_approximate_magnitude(self, distance) ==
    LET cutoff == self.qft_qubits - 1 - Abs(self.approximation_level)
    IN  distance > cutoff

\* variant: the cutoff distance itself is skipped too
QFT_should_approximate_inclusive(self, distance) ==
    LET cutoff == self.qft_qubits - 1 - self.approximation_level
    IN  distance >= cutoff

QFT_should_approximate(self, distance) ==
    LET cutoff == self.qft_qubits - 1 - self.approximation_level
    IN  distance > cutoff

\* variant: the partner index is one too high
QFT_swap_pairs_off_by_one(self) ==
    [i \in 1..(self.qft_qubits \div 2) |-> <<i - 1, self.qft_qubits - (i - 1)>>]

QFT_swap_pairs(self) ==
    [i \in 1..(self.qft_qubits \div 2) |-> <<i - 1, self.qft_qubits - (i - 1) - 1>>]

QFT_add_barrier(self, circuit) ==
    IF self.insert_barrier THEN Op_barrier(circuit) ELSE circuit

QFT_init_circuit(self) == NewCircuit(self.qft_qubits, 0)

\* variant: the circuit is created only when the attribute holds none yet
QFT_bind_circuit_once(self, old) ==
    IF old = None THEN Some(QFT_init_circuit(self)) ELSE old

\* self.qft_circuit = QuantumCircuit(...): the attribute's value after line 100,
\* whatever it held before
QFT_bind_circuit(self, old) == Some(QFT_init_circuit(self))

\* a write to the circuit object `id`, seen through every reference to it
Store(refs, id, circuit) ==
    [i \in 1..Len(refs) |->
        IF refs[i].id = id THEN [id |-> id, circuit |-> circuit] ELSE refs[i]]

\* for q1, q2 in pairs: circuit.swap(q1, q2)
SwapLoop(circuit, pairs) ==
    Extend(circuit, [i \in 1..Len(pairs) |-> Instr("swap", <<>>, <<pairs[i][1], pairs[i][2]>>, <<>>)])

QFT_apply_pre_swaps(self, circuit) ==
    IF self.inverse /\ self.do_swaps
    THEN QFT_add_barrier(self, SwapLoop(circuit, QFT_swap_pairs(self)))
    ELSE circuit

\* variant: the post-swaps are closed by a barrier like the pre-swaps
QFT_apply_post_swaps_barrier(self, circuit) ==
    IF ~self.inverse /\ self.do_swaps
    THEN QFT_add_barrier(self, SwapLoop(circuit, QFT_swap_pairs(self)))
    ELSE circuit

\* variant: post-swaps not restricted to the forward transform
QFT_apply_post_swaps_both(self, circuit) ==
    IF self.do_swaps
    THEN SwapLoop(circuit, QFT_swap_pairs(self))
    ELSE circuit

QFT_apply_post_swaps(self, circuit) ==
    IF ~self.inverse /\ self.do_swaps
    THEN SwapLoop(circuit, QFT_swap_pairs(self))
    ELSE circuit

\* variant: the inverse angle is not negated
QFT_cp_instr_not_negated(self, control_qubit, target_qubit) ==
    LET distance == Abs(control_qubit - target_qubit)
        angle == PiOver(distance)
    IN  IF self.inverse
        THEN Instr("cp", <<angle>>, <<target_qubit, control_qubit>>, <<>>)
        ELSE Instr("cp", <<angle>>, <<control_qubit, target_qubit>>, <<>>)

\* variant: the inverse branch passes (control_qubit, target_qubit) like the forward one
QFT_cp_instr_loop_order(self, control_qubit, target_qubit) ==
    LET distance == Abs(control_qubit - target_qubit)
        angle == PiOver(distance)
    IN  IF self.inverse
        THEN Instr("cp", <<Neg(angle)>>, <<control_qubit, target_qubit>>, <<>>)
        ELSE Instr("cp", <<angle>>, <<control_qubit, target_qubit>>, <<>>)

\* the cp instruction the inner loop emits for a target that is not skipped
QFT_cp_instr(self, control_qubit, target_qubit) ==
    LET distance == Abs(control_qubit - target_qubit)
        angle == PiOver(distance)
    IN  IF self.inverse
        THEN Instr("cp", <<Neg(angle)>>, <<target_qubit, control_qubit>>, <<>>)
        ELSE Instr("cp", <<angle>>, <<control_qubit, target_qubit>>, <<>>)

\* inner loop (lines 144-154): targets in order, skipped ones dropped
TargetLoop(self, circuit, control_qubit) ==
    LET targets == QFT_target_range(self, control_qubit)
        kept == SelectSeq(targets,
                    LAMBDA t : ~QFT_should_approximate(self, Abs(control_qubit - t)))
    IN  Extend(circuit, [j \in 1..Len(kept) |-> QFT_cp_instr(self, control_qubit, kept[j])])

\* outer loop (lines 141-156)
RECURSIVE ControlLoop(_, _, _, _)
ControlLoop(self, circuit, controls, i) ==
    IF i > Len(controls) THEN circuit
    ELSE LET c == controls[i]
             afterH == Op_h(circuit, c)
             afterT == TargetLoop(self, afterH, c)
         IN  ControlLoop(self, QFT_add_barrier(self, afterT), controls, i + 1)

QFT_apply_core_transform(self, circuit) ==
    ControlLoop(self, circuit, QFT_qubit_range(self), 1)

\* QFT.build as a function of the object
QFT_build(self) ==
    QFT_apply_post_swaps(self,
        QFT_apply_core_transform(self,
            QFT_apply_pre_swaps(self, QFT_init_circuit(self))))

\* --------------------------------------------------------------- QFTGate
\* variant: barriers left on in the wrapped QFT
QFTGate_init_with_barrier(qft_qubits, inverse, do_swaps, approximation_level) ==
    QFT_init([qft_qubits |-> qft_qubits, inverse |-> inverse, do_swaps |-> do_swaps,
              approximation_level |-> approximation_level,
              label |-> None, insert_barrier |-> TRUE, debug |-> FALSE])

\* QFTGate.__init__: forwards its arguments to QFT with barriers and debug off
QFTGate_init(qft_qubits, inverse, do_swaps, approximation_level) ==
    QFT_init([qft_qubits |-> qft_qubits, inverse |-> inverse, do_swaps |-> do_swaps,
              approximation_level |-> approximation_level,
              label |-> None, insert_barrier |-> FALSE, debug |-> FALSE])

\* QuantumCircuit.to_gate: the gate whose definition is the circuit's instruction list
to_gate(circuit) == [num_qubits |-> circuit.num_qubits, definition |-> circuit.data]

\* ------------------------------------------------------------------ QPE
QPE_params == {"control_qubits", "theta", "unitary", "phase_qubits", "label",
               "debug", "insert_barrier", "init_phase"}

\* variant: theta is not restricted to a single phase qubit
QPE_init_any_width(kwargs) ==
    IF ~(DOMAIN kwargs \subseteq QPE_params) \/ "control_qubits" \notin DOMAIN kwargs
    THEN [exc |-> "TypeError", self |-> None]
    ELSE LET control_qubits == kwargs.control_qubits
             theta == Arg(kwargs, "theta", None)
             unitary == Arg(kwargs, "unitary", None)
             phase_qubits == Arg(kwargs, "phase_qubits", 1)
         IN  IF control_qubits < 1 \/ phase_qubits < 1
             THEN [exc |-> "ValueError", self |-> None]
             ELSE IF (theta = None /\ unitary = None) \/ (theta # None /\ unitary # None)
             THEN [exc |-> "ValueError", self |-> None]
             ELSE [exc |-> "",
                   self |-> Some([control_qubits |-> control_qubits,
                                  theta |-> theta,
                                  phase_qubits |-> phase_qubits,
                                  unitary |-> unitary,
                                  insert_barrier |-> Arg(kwargs, "insert_barrier", FALSE),
                                  init_phase |-> Arg(kwargs, "init_phase", FALSE)])]

\* QPE.__init__ called with keyword arguments kwargs; theta is None or Some(t),
\* t = [num, den] standing for the number num/den; unitary is None or Some(handle)
QPE_init(kwargs) ==
    IF ~(DOMAIN kwargs \subseteq QPE_params) \/ "control_qubits" \notin DOMAIN kwargs
    THEN [exc |-> "TypeError", self |-> None]
    ELSE LET control_qubits == kwargs.control_qubits
             theta == Arg(kwargs, "theta", None)
             unitary == Arg(kwargs, "unitary", None)
             phase_qubits == Arg(kwargs, "phase_qubits", 1)
         IN  IF control_qubits < 1 \/ phase_qubits < 1
             THEN [exc |-> "ValueError", self |-> None]
             ELSE IF (theta = None /\ unitary = None) \/ (theta # None /\ unitary # None)
             THEN [exc |-> "ValueError", self |-> None]
             ELSE IF theta # None /\ phase_qubits > 1
             THEN [exc |-> "ValueError", self |-> None]
             ELSE [exc |-> "",
                   self |-> Some([control_qubits |-> control_qubits,
                                  theta |-> theta,
                                  phase_qubits |-> phase_qubits,
                                  unitary |-> unitary,
                                  insert_barrier |-> Arg(kwargs, "insert_barrier", FALSE),
                                  init_phase |-> Arg(kwargs, "init_phase", FALSE)])]

\* the registers of QPE._create_registers as lists of circuit qubit / clbit indices
control_reg(self) == [i \in 1..self.control_qubits |-> i - 1]
phase_reg(self) == [j \in 1..self.phase_qubits |-> self.control_qubits + j - 1]
c_reg(self) == [i \in 1..self.control_qubits |-> i - 1]

QPE_create_registers(self) ==
    NewCircuit(self.control_qubits + self.phase_qubits, self.control_qubits)

\* variant: the x is applied to the last phase qubit
QPE_init_phase_register_last(self, circuit) ==
    IF self.init_phase THEN Op_x(circuit, phase_reg(self)[self.phase_qubits]) ELSE circuit

QPE_init_phase_register(self, circuit) ==
    IF self.init_phase THEN Op_x(circuit, phase_reg(self)[1]) ELSE circuit

\* circuit.h(register): one h per qubit of the register, in register order
QPE_init_control_register(self, circuit) ==
    Extend(circuit, [i \in 1..Len(control_reg(self)) |->
                        Instr("h", <<>>, <<control_reg(self)[i]>>, <<>>)])

QPE_add_barrier(self, circuit) ==
    IF self.insert_barrier THEN Op_barrier(circuit) ELSE circuit

\* the class object float (the default of QPEGate's theta): a value that is not
\* None and is not a number; numbers num/den have den > 0
FloatType == [num |-> 0, den |-> 0]
IsNumber(theta) == theta.den > 0

\* 2 * pi * theta * (2 ** control_qubit), in units of pi
QPE_angle(theta, control_qubit) ==
    [num |-> 2 * theta.num * Pow2(control_qubit), den |-> theta.den]

\* variant: power = 2 * control_qubit
QPE_power_linear(control_qubit) == 2 * control_qubit

\* power = 2 ** control_qubit
QPE_power(control_qubit) == Pow2(control_qubit)

\* one iteration of the loop of QPE._apply_controlled_rotations
QPE_rotation_step(self, circuit, control_qubit) ==
    IF self.unitary # None
    THEN LET handle == self.unitary[1]
             power == QPE_power(control_qubit)
             qargs == <<control_reg(self)[control_qubit + 1]>> \o phase_reg(self)
         IN  IF ~handle.has_power
             THEN [exc |-> "ValueError", circuit |-> circuit]
             ELSE IF ~handle.has_control
             THEN [exc |-> "AttributeError", circuit |-> circuit]
             ELSE IF handle.width + 1 # Len(qargs)
             THEN [exc |-> "CircuitError", circuit |-> circuit]
             ELSE [exc |-> "",
                   circuit |-> QPE_add_barrier(self,
                       Emit(circuit, Instr("cu_power",
                                           <<[handle |-> handle, power |-> power]>>,
                                           qargs, <<>>)))]
    ELSE IF ~IsNumber(self.theta[1])
    THEN [exc |-> "TypeError", circuit |-> circuit]
    ELSE LET angle == QPE_angle(self.theta[1], control_qubit)
         IN  [exc |-> "",
              circuit |-> QPE_add_barrier(self,
                  Extend(circuit, [j \in 1..self.phase_qubits |->
                      Instr("cp", <<angle>>,
                            <<control_reg(self)[control_qubit + 1], phase_reg(self)[j]>>,
                            <<>>)]))]

\* circuit.compose(other, qubits=qubits, inplace=True)
compose(circuit, other, qubits) ==
    Extend(circuit, [i \in 1..Len(other.data) |->
        [other.data[i] EXCEPT !.qubits = [j \in 1..Len(@) |-> qubits[@[j] + 1]]]])

QPE_apply_inverse_qft(self, circuit) ==
    LET r == QFT_init([num_qubits |-> Some(self.control_qubits),
                       inverse |-> TRUE, do_swaps |-> TRUE])
    IN  IF r.exc # ""
        THEN [exc |-> r.exc, circuit |-> circuit]
        ELSE [exc |-> "",
              circuit |-> compose(circuit, QFT_build(r.self[1]), control_reg(self))]

\* circuit.measure(control_reg, c_reg): qubit i of the register into bit i
QPE_measure(self, circuit) ==
    Extend(circuit, [i \in 1..Len(control_reg(self)) |->
                        Instr("measure", <<>>, <<control_reg(self)[i]>>, <<c_reg(self)[i]>>)])

\* --------------------------------------------------------------- QPEGate
QPEGate_params == {"control_qubits", "theta", "unitary", "phase_qubits", "label"}

\* QPEGate.__init__ called with keyword arguments kwargs
QPEGate_init(kwargs) ==
    IF ~(DOMAIN kwargs \subseteq QPEGate_params) \/ "control_qubits" \notin DOMAIN kwargs
    THEN [exc |-> "TypeError", self |-> None]
    ELSE LET theta == Arg(kwargs, "theta", Some(FloatType))
             unitary == Arg(kwargs, "unitary", None)
         IN  IF (theta = None /\ unitary = None) \/ (theta # None /\ unitary # None)
             THEN [exc |-> "ValueError", self |-> None]
             ELSE QPE_init([control_qubits |-> kwargs.control_qubits,
                            theta |-> theta,
                            unitary |-> unitary,
                            phase_qubits |-> Arg(kwargs, "phase_qubits", 1),
                            label |-> Arg(kwargs, "label", None),
                            insert_barrier |-> FALSE,
                            debug |-> FALSE])

\* QPEGate.build, lines 244-248: a circuit on the same qubit registers holding
\* every instruction that is not a measure, without classical bits
QPEGate_clean(qpe_circuit) ==
    [num_qubits |-> qpe_circuit.num_qubits,
     num_clbits |-> 0,
     data |-> LET kept == SelectSeq(qpe_circuit.data, LAMBDA ins : ins.name # "measure")
              IN  [i \in 1..Len(kept) |-> [kept[i] EXCEPT !.clbits = <<>>]]]

\* ---------------------------------------------------------------- state
VARIABLES
    kind,         \* class of the object the caller constructed ("" before)
    pc,           \* position of the caller / of the running build()
    qft,          \* the QFT object (self, or QFTGate.qft): None or Some(fields)
    qft_circuit,  \* QFT.qft_circuit attribute: None or Some(circuit)
    qpe,          \* the QPE object: None or Some(fields)
    qpe_circuit,  \* QPE.qpe_circuit attribute: None or Some(circuit)
    rot,          \* loop variable control_qubit of QPE._apply_controlled_rotations
    ret,          \* value returned by the last build(): None or Some(value)
    exc,          \* exception that reached the caller ("" if none)
    args,         \* keyword arguments of the caller's constructor call: None or Some(kwargs)
    obj,          \* identity of the circuit object bound to QFT.qft_circuit (0: none)
    returned      \* the caller's references to the circuits QFT.build returned:
                  \* [id, circuit] with the current value of the object referred to

vars == <<kind, pc, qft, qft_circuit, qpe, qpe_circuit, rot, ret, exc, args, obj, returned>>

Init ==
    /\ kind = ""
    /\ pc = "start"
    /\ qft = None
    /\ qft_circuit = None
    /\ qpe = None
    /\ qpe_circuit = None
    /\ rot = 0
    /\ ret = None
    /\ exc = ""
    /\ args = None
    /\ obj = 0
    /\ returned = <<>>

\* qft_qubits as the caller passes it: None or an integer
QubitArgs == {None} \cup {Some(n) : n \in 0..MaxQubits}
LevelArgs == (0 - 1)..MaxLevel

\* caller: QFT(qft_qubits=n, inverse=.., do_swaps=.., approximation_level=.., insert_barrier=..)
NewQFT ==
    /\ pc = "start"
    /\ \E n \in QubitArgs, inv \in BOOLEAN, sw \in BOOLEAN, bar \in BOOLEAN, lvl \in LevelArgs :
          LET kw == [qft_qubits |-> n, inverse |-> inv, do_swaps |-> sw,
                     approximation_level |-> lvl, insert_barrier |-> bar]
              r == QFT_init(kw)
          IN  /\ kind' = "QFT"
              /\ args' = Some(kw)
              /\ qft' = r.self
              /\ exc' = r.exc
              /\ pc' = IF r.exc = "" THEN "constructed" ELSE "raised"
    /\ UNCHANGED <<qft_circuit, qpe, qpe_circuit, rot, ret, obj, returned>>

\* QFT.build, line 174
QFT_build_init ==
    /\ kind \in {"QFT", "QFTGate"}
    /\ \/ pc = "constructed"
       \/ pc = "done" /\ kind = "QFT" /\ Len(returned) < MaxBuilds
    /\ qft_circuit' = QFT_bind_circuit(qft[1], qft_circuit)
    /\ obj' = obj + 1
    /\ pc' = "pre_swaps"
    /\ UNCHANGED <<kind, qft, qpe, qpe_circuit, rot, ret, exc, args, returned>>

\* QFT.build, line 175
QFT_build_pre_swaps ==
    /\ pc = "pre_swaps"
    /\ qft_circuit' = Some(QFT_apply_pre_swaps(qft[1], qft_circuit[1]))
    /\ returned' = Store(returned, obj, qft_circuit'[1])
    /\ pc' = "core"
    /\ UNCHANGED <<kind, qft, qpe, qpe_circuit, rot, ret, exc, args, obj>>

\* QFT.build, line 176
QFT_build_core ==
    /\ pc = "core"
    /\ qft_circuit' = Some(QFT_apply_core_transform(qft[1], qft_circuit[1]))
    /\ returned' = Store(returned, obj, qft_circuit'[1])
    /\ pc' = "post_swaps"
    /\ UNCHANGED <<kind, qft, qpe, qpe_circuit, rot, ret, exc, args, obj>>

\* QFT.build, lines 177-180 (debug is off: nothing is displayed); returns to
\* the caller, or into QFTGate.build line 242
QFT_build_post_swaps ==
    /\ pc = "post_swaps"
    /\ qft_circuit' = Some(QFT_apply_post_swaps(qft[1], qft_circuit[1]))
    /\ IF kind = "QFT"
       THEN /\ ret' = qft_circuit'
            /\ returned' = Append(Store(returned, obj, qft_circuit'[1]),
                                   [id |-> obj, circuit |-> qft_circuit'[1]])
            /\ pc' = "done"
       ELSE /\ ret' = ret
            /\ returned' = returned
            /\ pc' = "to_gate"
    /\ UNCHANGED <<kind, qft, qpe, qpe_circuit, rot, exc, args, obj>>

\* caller: QFTGate(qft_qubits=n, inverse=.., do_swaps=.., approximation_level=..)
NewQFTGate ==
    /\ pc = "start"
    /\ \E n \in QubitArgs, inv \in BOOLEAN, sw \in BOOLEAN, lvl \in LevelArgs :
          LET r == QFTGate_init(n, inv, sw, lvl)
          IN  /\ kind' = "QFTGate"
              /\ args' = Some([qft_qubits |-> n, inverse |-> inv, do_swaps |-> sw,
                               approximation_level |-> lvl])
              /\ qft' = r.self
              /\ exc' = r.exc
              /\ pc' = IF r.exc = "" THEN "constructed" ELSE "raised"
    /\ UNCHANGED <<qft_circuit, qpe, qpe_circuit, rot, ret, obj, returned>>

\* QFTGate.build, line 243
QFTGate_build_return ==
    /\ pc = "to_gate"
    /\ kind = "QFTGate"
    /\ ret' = Some(to_gate(qft_circuit[1]))
    /\ pc' = "done"
    /\ UNCHANGED <<kind, qft, qft_circuit, qpe, qpe_circuit, rot, exc, args, obj, returned>>

ControlArgs == 0..MaxControl
PhaseArgs == 0..MaxPhase
Thetas == {[num |-> 1, den |-> 4], [num |-> 1, den |-> 5]}
Handles == [width : 1..MaxPhase, has_power : BOOLEAN, has_control : BOOLEAN]

\* caller: QPE(control_qubits=c, theta=.., unitary=.., phase_qubits=p,
\*             insert_barrier=.., init_phase=..)
NewQPE ==
    /\ pc = "start"
    /\ \E c \in ControlArgs, p \in PhaseArgs,
          th \in {None} \cup {Some(t) : t \in Thetas},
          u \in {None} \cup {Some(h) : h \in Handles},
          bar \in BOOLEAN, ip \in BOOLEAN :
          LET kw == [control_qubits |-> c, theta |-> th, unitary |-> u,
                     phase_qubits |-> p, insert_barrier |-> bar, init_phase |-> ip]
              r == QPE_init(kw)
          IN  /\ kind' = "QPE"
              /\ args' = Some(kw)
              /\ qpe' = r.self
              /\ exc' = r.exc
              /\ pc' = IF r.exc = "" THEN "constructed" ELSE "raised"
    /\ UNCHANGED <<qft, qft_circuit, qpe_circuit, rot, ret, obj, returned>>

\* caller: QPEGate(control_qubits=c, phase_qubits=p) with theta=.. and
\* unitary=.. each either passed or left out
NewQPEGate ==
    /\ pc = "start"
    /\ \E c \in ControlArgs, p \in PhaseArgs,
          th \in {None} \cup {Some(t) : t \in Thetas},
          u \in {None} \cup {Some(h) : h \in Handles},
          thGiven \in BOOLEAN, uGiven \in BOOLEAN :
          LET kw == IF thGiven /\ uGiven
                    THEN [control_qubits |-> c, phase_qubits |-> p, theta |-> th, unitary |-> u]
                    ELSE IF thGiven
                    THEN [control_qubits |-> c, phase_qubits |-> p, theta |-> th]
                    ELSE IF uGiven
                    THEN [control_qubits |-> c, phase_qubits |-> p, unitary |-> u]
                    ELSE [control_qubits |-> c, phase_qubits |-> p]
              r == QPEGate_init(kw)
          IN  /\ kind' = "QPEGate"
              /\ args' = Some(kw)
              /\ qpe' = r.self
              /\ exc' = r.exc
              /\ pc' = IF r.exc = "" THEN "constructed" ELSE "raised"
    /\ UNCHANGED <<qft, qft_circuit, qpe_circuit, rot, ret, obj, returned>>

\* QPE.build, line 155
QPE_build_create_registers ==
    /\ pc = "constructed"
    /\ kind \in {"QPE", "QPEGate"}
    /\ qpe_circuit' = Some(QPE_create_registers(qpe[1]))
    /\ pc' = "init_control"
    /\ UNCHANGED <<kind, qft, qft_circuit, qpe, rot, ret, exc, args, obj, returned>>

\* QPE.build, line 157
QPE_build_init_control ==
    /\ pc = "init_control"
    /\ qpe_circuit' = Some(QPE_init_control_register(qpe[1], qpe_circuit[1]))
    /\ pc' = "init_phase"
    /\ UNCHANGED <<kind, qft, qft_circuit, qpe, rot, ret, exc, args, obj, returned>>

\* QPE.build, line 158
QPE_build_init_phase ==
    /\ pc = "init_phase"
    /\ qpe_circuit' = Some(QPE_init_phase_register(qpe[1], qpe_circuit[1]))
    /\ pc' = "barrier"
    /\ UNCHANGED <<kind, qft, qft_circuit, qpe, rot, ret, exc, args, obj, returned>>

\* QPE.build, line 159; the loop of line 123 starts at control_qubit = 0
QPE_build_barrier ==
    /\ pc = "barrier"
    /\ qpe_circuit' = Some(QPE_add_barrier(qpe[1], qpe_circuit[1]))
    /\ rot' = 0
    /\ pc' = "rotations"
    /\ UNCHANGED <<kind, qft, qft_circuit, qpe, ret, exc, args, obj, returned>>

\* QPE._apply_controlled_rotations, one iteration of the loop (lines 123-142)
QPE_build_rotation ==
    /\ pc = "rotations"
    /\ rot < qpe[1].control_qubits
    /\ LET r == QPE_rotation_step(qpe[1], qpe_circuit[1], rot)
       IN  /\ qpe_circuit' = Some(r.circuit)
           /\ exc' = r.exc
           /\ IF r.exc = ""
              THEN rot' = rot + 1 /\ pc' = "rotations"
              ELSE rot' = rot /\ pc' = "raised"
    /\ UNCHANGED <<kind, qft, qft_circuit, qpe, ret, args, obj, returned>>

\* QPE.build, lines 162-170, after the loop has run out; a QPEGate.build
\* that called it goes on with lines 244-250
QPE_build_finish ==
    /\ pc = "rotations"
    /\ rot = qpe[1].control_qubits
    /\ LET r == QPE_apply_inverse_qft(qpe[1], qpe_circuit[1])
       IN  IF r.exc # ""
           THEN /\ qpe_circuit' = Some(r.circuit)
                /\ exc' = r.exc
                /\ ret' = ret
                /\ pc' = "raised"
           ELSE /\ qpe_circuit' = Some(QPE_measure(qpe[1], QPE_add_barrier(qpe[1], r.circuit)))
                /\ exc' = ""
                /\ ret' = IF kind = "QPE"
                          THEN qpe_circuit'
                          ELSE Some(to_gate(QPEGate_clean(qpe_circuit'[1])))
                /\ pc' = "done"
    /\ UNCHANGED <<kind, qft, qft_circuit, qpe, rot, args, obj, returned>>

Next ==
    \/ NewQFT
    \/ QFT_build_init
    \/ QFT_build_pre_swaps
    \/ QFT_build_core
    \/ QFT_build_post_swaps
    \/ NewQFTGate
    \/ QFTGate_build_return
    \/ NewQPE
    \/ NewQPEGate
    \/ QPE_build_create_registers
    \/ QPE_build_init_control
    \/ QPE_build_init_phase
    \/ QPE_build_barrier
    \/ QPE_build_rotation
    \/ QPE_build_finish

Spec == Init /\ [][Next]_vars

\* ============================================================ properties
Built == kind = "QFT" /\ pc = "done"
Tri(m) == (m * (m + 1)) \div 2

StripBarriers(data) == SelectSeq(data, LAMBDA ins : ins.name # "barrier")
Only(data, name) == SelectSeq(data, LAMBDA ins : ins.name = name)
QubitSet(ins) == {ins.qubits[i] : i \in DOMAIN ins.qubits}
Positions(data, names) == {i \in DOMAIN data : data[i].name \in names}

H(q) == [name |-> "h", params |-> <<>>, qubits |-> <<q>>, clbits |-> <<>>]
X(q) == [name |-> "x", params |-> <<>>, qubits |-> <<q>>, clbits |-> <<>>]
Swap(a, b) == [name |-> "swap", params |-> <<>>, qubits |-> <<a, b>>, clbits |-> <<>>]
\* ControlledPhase(num/den * pi, control, target)
CP(num, den, control, target) ==
    [name |-> "cp", params |-> <<[num |-> num, den |-> den]>>,
     qubits |-> <<control, target>>, clbits |-> <<>>]
Measure(q, c) == [name |-> "measure", params |-> <<>>, qubits |-> <<q>>, clbits |-> <<c>>]

\* --- cancellation in the group where only operations on disjoint qubits commute
MutuallyInverse(a, b) ==
    /\ a.name = b.name
    /\ QubitSet(a) = QubitSet(b)
    /\ \/ a.name \in {"h", "swap"}
       \/ /\ a.name = "cp"
          /\ a.params[1].den = b.params[1].den
          /\ a.params[1].num = 0 - b.params[1].num

RemoveAt(seq, k) == SubSeq(seq, 1, k - 1) \o SubSeq(seq, k + 1, Len(seq))

\* seq[i..] is pushed onto stack one operation at a time; an operation cancels
\* against the last operation of the stack that shares a qubit with it, if that
\* one is its inverse (everything after it is on disjoint qubits and commutes).
RECURSIVE Reduce(_, _, _)
Reduce(seq, i, stack) ==
    IF i > Len(seq) THEN stack
    ELSE LET g == seq[i]
             blockers == {k \in 1..Len(stack) : QubitSet(stack[k]) \cap QubitSet(g) # {}}
             top == CHOOSE k \in blockers : \A m \in blockers : m <= k
         IN  IF blockers # {} /\ MutuallyInverse(stack[top], g)
             THEN Reduce(seq, i + 1, RemoveAt(stack, top))
             ELSE Reduce(seq, i + 1, Append(stack, g))

\* C1: for approximationLevel = 0 and any doSwaps / insertBarrier, the forward
\* sequence followed by the inverse sequence of the same settings cancels
\* completely (Barriers ignored; H.H, Swap.Swap, CP(a).CP(-a) on the same pair
\* removed; operations on disjoint qubits commute).
C1_RoundTripIdentity ==
    (Built /\ qft[1].approximation_level = 0) =>
        LET self == qft[1]
            other == QFT_build([self EXCEPT !.inverse = ~self.inverse]).data
            fwd == IF self.inverse THEN other ELSE ret[1].data
            inv == IF self.inverse THEN ret[1].data ELSE other
        IN  Reduce(StripBarriers(fwd \o inv), 1, <<>>) = <<>>

C1_Witness ==
    /\ Built
    /\ qft[1].approximation_level = 0
    /\ qft[1].qft_qubits = 8
    /\ qft[1].inverse /\ qft[1].do_swaps /\ qft[1].insert_barrier
    /\ Len(ret[1].data) = 8 + 28 + 4 + 9

\* C2: with inverse=false, doSwaps=true, approximationLevel=0, insertBarrier=false
\* the built sequence is, for c = n-1 down to 0, Hadamard(c) then
\* ControlledPhase(pi/2^(c-t), control=c, target=t) for t = c-1 down to 0,
\* followed by Swap(i, n-1-i) for i = 0 .. n div 2 - 1.
C2_ForwardSequence ==
    (Built /\ ~qft[1].inverse /\ qft[1].do_swaps /\ qft[1].approximation_level = 0
           /\ ~qft[1].insert_barrier) =>
        LET n == qft[1].qft_qubits
            d == ret[1].data
            start(c) == Tri(n) - Tri(c + 1)
        IN  /\ Len(d) = Tri(n) + n \div 2
            /\ \A c \in 0..(n - 1) :
                  /\ d[start(c) + 1] = H(c)
                  /\ \A j \in 1..c : d[start(c) + 1 + j] = CP(1, 2^j, c, c - j)
            /\ \A i \in 0..((n \div 2) - 1) : d[Tri(n) + i + 1] = Swap(i, n - 1 - i)
            /\ n = 2 => d = <<H(1), CP(1, 2, 1, 0), H(0), Swap(0, 1)>>

C2_Witness ==
    /\ Built
    /\ ~qft[1].inverse /\ qft[1].do_swaps /\ ~qft[1].insert_barrier
    /\ qft[1].approximation_level = 0
    /\ qft[1].qft_qubits = 5
    /\ ret[1].data[14] = CP(1, 2, 1, 0)

\* C3: for approximationLevel k in 0..n-1 and either direction, a ControlledPhase
\* is emitted for the pair {a, b} iff |a - b| <= n-1-k, once per such pair, so
\* there are n(n-1)/2 - k(k+1)/2 of them.
C3_PrunedPairs ==
    (Built /\ qft[1].approximation_level \in 0..(qft[1].qft_qubits - 1)) =>
        LET n == qft[1].qft_qubits
            k == qft[1].approximation_level
            cps == Only(ret[1].data, "cp")
        IN  /\ \A a \in 0..(n - 1) : \A b \in (a + 1)..(n - 1) :
                  Cardinality({i \in DOMAIN cps : QubitSet(cps[i]) = {a, b}})
                      = IF b - a <= n - 1 - k THEN 1 ELSE 0
            /\ Len(cps) = (n * (n - 1)) \div 2 - (k * (k + 1)) \div 2

C3_Witness ==
    /\ Built
    /\ qft[1].inverse
    /\ qft[1].qft_qubits = 6
    /\ qft[1].approximation_level = 3
    /\ Len(Only(ret[1].data, "cp")) = 9

\* C4 as stated: the inverse transform's ControlledPhase for a pair has control
\* and target exchanged relative to the forward transform's, and the negated angle.
C4_OperandsExchanged ==
    (Built /\ qft[1].inverse) =>
        LET fwd == QFT_build([qft[1] EXCEPT !.inverse = FALSE]).data
            cps == Only(ret[1].data, "cp")
        IN  \A i \in DOMAIN cps :
                \E j \in DOMAIN fwd :
                    /\ fwd[j].name = "cp"
                    /\ fwd[j].qubits = <<cps[i].qubits[2], cps[i].qubits[1]>>
                    /\ fwd[j].params[1].den = cps[i].params[1].den
                    /\ fwd[j].params[1].num = 0 - cps[i].params[1].num

\* C4 amended: for every retained pair {a, b} both transforms emit the
\* ControlledPhase with the same operands, control = max(a, b) and
\* target = min(a, b); the forward angle is pi/2^|a-b| and the inverse angle is
\* its negation.
C4_SameOperandsNegatedAngle ==
    Built =>
        LET self == qft[1]
            other == Only(QFT_build([self EXCEPT !.inverse = ~self.inverse]).data, "cp")
            cps == Only(ret[1].data, "cp")
            sign == IF self.inverse THEN 0 - 1 ELSE 1
        IN  \A i \in DOMAIN cps :
                LET hi == cps[i].qubits[1]
                    lo == cps[i].qubits[2]
                IN  /\ hi > lo
                    /\ cps[i] = CP(sign, 2^(hi - lo), hi, lo)
                    /\ \E j \in DOMAIN other : other[j] = CP(0 - sign, 2^(hi - lo), hi, lo)

C4_Witness ==
    /\ Built
    /\ qft[1].inverse
    /\ qft[1].qft_qubits = 4
    /\ qft[1].approximation_level = 1
    /\ CP(0 - 1, 4, 3, 1) \in {ret[1].data[i] : i \in DOMAIN ret[1].data}

\* C5: without doSwaps there is no Swap; with doSwaps the Swaps are exactly
\* Swap(i, n-1-i) for i < n div 2 in ascending i, all before every
\* Hadamard/ControlledPhase when inverse and all after them when forward.
C5_SwapPlacement ==
    Built =>
        LET n == qft[1].qft_qubits
            d == ret[1].data
            swaps == Positions(d, {"swap"})
            core == Positions(d, {"h", "cp"})
        IN  IF ~qft[1].do_swaps
            THEN swaps = {}
            ELSE /\ Only(d, "swap") = [i \in 1..(n \div 2) |-> Swap(i - 1, n - i)]
                 /\ \A s \in swaps : \A c \in core :
                        IF qft[1].inverse THEN s < c ELSE s > c

C5_Witness ==
    /\ Built
    /\ qft[1].do_swaps /\ qft[1].inverse
    /\ qft[1].qft_qubits = 5
    /\ ret[1].data[2] = Swap(1, 3)
    /\ ret[1].data[3].name \in {"h", "barrier"}

\* C6: the sequence underlying QFTGate.build has no Barrier and equals the
\* sequence QFT.build gives with insertBarrier=true once its Barriers are deleted.
C6_GateHasNoBarrier ==
    (kind = "QFTGate" /\ pc = "done") =>
        LET d == ret[1].definition
            withBarriers == QFT_build([qft[1] EXCEPT !.insert_barrier = TRUE]).data
        IN  /\ Positions(d, {"barrier"}) = {}
            /\ d = StripBarriers(withBarriers)
            /\ Len(withBarriers) > Len(d)

C6_Witness ==
    /\ kind = "QFTGate" /\ pc = "done"
    /\ qft[1].inverse /\ qft[1].do_swaps
    /\ qft[1].qft_qubits = 4
    /\ Len(ret[1].definition) = 2 + 4 + 6

\* ------------------------------------------------------------ QPE claims
\* a config QPE.__init__ accepted whose unitary (if any) can be raised to a
\* power, controlled, and is as wide as the phase register
ValidQPE ==
    /\ kind = "QPE"
    /\ qpe # None
    /\ qpe[1].unitary # None =>
          /\ qpe[1].unitary[1].has_power
          /\ qpe[1].unitary[1].has_control
          /\ qpe[1].unitary[1].width = qpe[1].phase_qubits

BuildEnded == pc \in {"done", "raised"} /\ qpe_circuit # None

\* the inverse QFT the composer is to append: QFT(c, inverse, doSwaps, level 0)
InverseQFTOps(c) ==
    QFT_build([qft_qubits |-> c, inverse |-> TRUE, do_swaps |-> TRUE,
               approximation_level |-> 0, insert_barrier |-> FALSE]).data

\* C7: for every valid config QPE.build completes without raising and returns a
\* sequence over controlQubits + phaseQubits qubits and controlQubits classical
\* bits whose operations between the rotation stage and the measurements are
\* the inverse QFT of the control register, operand order unchanged.
C7_BuildCompletes ==
    (ValidQPE /\ BuildEnded) =>
        /\ exc = ""
        /\ ret # None
        /\ LET c == qpe[1].control_qubits
               d == StripBarriers(ret[1].data)
               iqft == InverseQFTOps(c)
           IN  /\ ret[1].num_qubits = c + qpe[1].phase_qubits
               /\ ret[1].num_clbits = c
               /\ Len(d) >= c + Len(iqft)
               /\ SubSeq(d, Len(d) - c - Len(iqft) + 1, Len(d) - c) = iqft

\* every state of a build after line 158 (the phase register has been initialised)
AfterInitPhase ==
    /\ kind = "QPE"
    /\ qpe_circuit # None
    /\ pc \in {"barrier", "rotations", "raised", "done"}

\* C8 as stated: with initPhase the PauliX on phase qubit 0 is the first
\* operation and precedes every control-register Hadamard; without it no PauliX.
C8_PauliXFirst ==
    AfterInitPhase =>
        LET c == qpe[1].control_qubits
            d == qpe_circuit[1].data
        IN  IF qpe[1].init_phase
            THEN /\ d[1] = X(c)
                 /\ \A i \in Positions(d, {"h"}) : i > 1
            ELSE Positions(d, {"x"}) = {}

\* C8 amended: with initPhase exactly one PauliX is emitted, on phase-register
\* qubit 0, immediately after the Hadamards of all control qubits (it is
\* operation number controlQubits + 1) and before every controlled rotation;
\* without initPhase no PauliX is emitted.
C8_PauliXAfterHadamards ==
    AfterInitPhase =>
        LET c == qpe[1].control_qubits
            d == qpe_circuit[1].data
        IN  /\ \A i \in 1..c : d[i] = H(i - 1)
            /\ IF qpe[1].init_phase
               THEN /\ d[c + 1] = X(c)
                    /\ Positions(d, {"x"}) = {c + 1}
                    /\ \A i \in Positions(d, {"cp", "cu_power"}) : i > c + 1
               ELSE Positions(d, {"x"}) = {}

C8_Witness ==
    /\ AfterInitPhase
    /\ qpe[1].init_phase
    /\ qpe[1].control_qubits = 3
    /\ pc = "rotations" /\ rot = 3
    /\ qpe_circuit[1].data[4] = X(3)

\* C9: the built sequence is the control-register Hadamards, then the rotation
\* stages for k ascending, then the inverse QFT, then exactly Measure(k, k) for
\* k ascending; nothing but Measures follows the first Measure and every
\* control qubit is measured once into the bit of its index.
C9_StageOrder ==
    (ValidQPE /\ BuildEnded) =>
        LET c == qpe[1].control_qubits
            d == StripBarriers(qpe_circuit[1].data)
            L == Len(d)
            rots == Positions(d, {"cu_power"}) \cup
                    {i \in Positions(d, {"cp"}) : d[i].qubits[2] >= c}
            iqft == {i \in Positions(d, {"h", "cp", "swap"}) : i > c} \ rots
        IN  /\ L >= 2 * c
            /\ \A i \in 1..c : d[i] = H(i - 1)
            /\ \A i \in rots : \A j \in rots : i < j => d[i].qubits[1] <= d[j].qubits[1]
            /\ \A k \in 0..(c - 1) : \E i \in rots : d[i].qubits[1] = k
            /\ \A i \in rots : \A j \in iqft : i < j
            /\ \A k \in 0..(c - 1) : d[L - c + 1 + k] = Measure(k, k)
            /\ Positions(d, {"measure"}) = (L - c + 1)..L
            /\ \A j \in iqft : j < L - c + 1

\* C10: the rotation stage of control qubit k is, in Theta mode,
\* ControlledPhase(2*pi*theta*2^k, control=k, target=p) for every phase qubit p
\* and, in Unitary mode, one ControlledUnitaryPower(handle, 2^k, controls={k},
\* targets=the phase register in ascending order); the stage emits nothing
\* else, and only the optional Barrier of insertBarrier follows it.
C10_RotationStage ==
    (kind = "QPE" /\ qpe_circuit # None /\ pc \in {"rotations", "raised", "done"}) =>
        LET self == qpe[1]
            c == self.control_qubits
            p == self.phase_qubits
            d == qpe_circuit[1].data
            bar == IF self.insert_barrier THEN 1 ELSE 0
            base == c + (IF self.init_phase THEN 1 ELSE 0) + bar
            ops == IF self.unitary # None THEN 1 ELSE p
            stage == ops + bar
            phase == [j \in 1..p |-> c + j - 1]
        IN  /\ Len(d) >= base + rot * stage
            /\ pc # "done" => Len(d) = base + rot * stage
            /\ \A k \in 0..(rot - 1) :
                  /\ IF self.unitary # None
                     THEN d[base + k * stage + 1] =
                            [name |-> "cu_power",
                             params |-> <<[handle |-> self.unitary[1], power |-> 2^k]>>,
                             qubits |-> <<k>> \o phase, clbits |-> <<>>]
                     ELSE \A j \in 1..p :
                            d[base + k * stage + j] =
                                CP(2 * self.theta[1].num * 2^k, self.theta[1].den, k, phase[j])
                  /\ self.insert_barrier => d[base + (k + 1) * stage].name = "barrier"

C10_Witness ==
    /\ kind = "QPE" /\ pc = "rotations"
    /\ qpe[1].unitary # None
    /\ qpe[1].phase_qubits = 2
    /\ rot = 3
    /\ qpe_circuit[1].data[6].params[1].power = 4
    /\ qpe_circuit[1].data[6].qubits = <<2, 3, 4>>

C10_WitnessTheta ==
    /\ kind = "QPE" /\ pc = "rotations"
    /\ qpe[1].theta # None
    /\ rot = 3
    /\ CP(8, 4, 2, 3) \in {qpe_circuit[1].data[i] : i \in DOMAIN qpe_circuit[1].data}

\* ----------------------------------------------------- construction claims
\* C11: constructing a QPE fails with a configuration error, before any register
\* or operation exists, exactly when controlQubits < 1, or phaseQubits < 1, or
\* theta and unitary are both given or both missing, or theta comes with
\* phaseQubits > 1; every other combination is accepted.
C11_ConfigValidation ==
    kind = "QPE" =>
        LET a == args[1]
            bad == \/ a.control_qubits < 1
                   \/ a.phase_qubits < 1
                   \/ a.theta # None /\ a.unitary # None
                   \/ a.theta = None /\ a.unitary = None
                   \/ a.theta # None /\ a.phase_qubits > 1
        IN  IF bad
            THEN /\ pc = "raised" /\ exc = "ValueError"
                 /\ qpe = None /\ qpe_circuit = None /\ ret = None
            ELSE /\ qpe # None
                 /\ qpe[1].control_qubits = a.control_qubits
                 /\ qpe[1].phase_qubits = a.phase_qubits
                 /\ qpe[1].theta = a.theta /\ qpe[1].unitary = a.unitary

C11_Witness ==
    /\ kind = "QPE" /\ pc = "raised" /\ exc = "ValueError"
    /\ args[1].control_qubits = 2 /\ args[1].phase_qubits = 2
    /\ args[1].theta # None /\ args[1].unitary = None

\* C12: a Unitary-mode config whose unitary is not as wide as the phase register
\* is rejected at validation; no QPE object with width(unitary) # phaseQubits
\* exists.
C12_WidthValidated ==
    (kind = "QPE" /\ qpe # None /\ qpe[1].unitary # None) =>
        qpe[1].unitary[1].width = qpe[1].phase_qubits

\* C13: a handle without the power operation and a handle without the control
\* operation make the construction fail with one and the same error kind, the
\* one the code raises for an unsupported unitary.
C13_SameErrorKind ==
    (/\ kind = "QPE" /\ pc = "raised" /\ qpe # None
     /\ qpe[1].unitary # None
     /\ ~qpe[1].unitary[1].has_power \/ ~qpe[1].unitary[1].has_control) =>
        exc = "ValueError"

\* a QPE circuit that has all its measurements
CompleteQPE(circuit) ==
    LET c == circuit.num_clbits
        d == circuit.data
    IN  /\ Len(d) >= 2 * c
        /\ \A k \in 0..(c - 1) : d[Len(d) - c + 1 + k] = Measure(k, k)

\* C14: after a build call that raised, the builder's stored circuit is absent
\* or a complete sequence, never a partly built one.
C14_AllOrNothing ==
    pc = "raised" =>
        /\ qft_circuit = None \/ kind \notin {"QFT", "QFTGate"}
        /\ qpe_circuit = None \/ CompleteQPE(qpe_circuit[1])

\* C15: constructing a QFT or a QFTGate with numQubits < 1 or None fails with a
\* configuration error in the constructor, before any circuit exists; with
\* numQubits >= 1 construction succeeds and no build ever raises.
C15_QubitCountValidated ==
    kind \in {"QFT", "QFTGate"} =>
        LET n == args[1].qft_qubits
        IN  IF n = None \/ n[1] < 1
            THEN /\ pc = "raised" /\ exc = "ValueError"
                 /\ qft = None /\ qft_circuit = None /\ ret = None
            ELSE /\ qft # None /\ qft[1].qft_qubits = n[1]
                 /\ pc # "raised" /\ exc = ""
                 /\ pc = "done" => ret # None

C15_Witness ==
    /\ kind = "QFTGate" /\ pc = "raised" /\ exc = "ValueError"
    /\ args[1].qft_qubits = Some(0)
    /\ args[1].do_swaps

\* C16: the sequence built at level k in 0..n-1 has exactly k ControlledPhase
\* operations fewer than the level-0 sequence.
C16_LevelCountsGates ==
    (Built /\ qft[1].approximation_level \in 0..(qft[1].qft_qubits - 1)) =>
        LET n == qft[1].qft_qubits
            k == qft[1].approximation_level
        IN  Len(Only(ret[1].data, "cp")) = (n * (n - 1)) \div 2 - k

\* C17: QPEGate construction raises a configuration error iff neither or both of
\* theta and unitary are provided, an argument left out counting as not provided
\* (control and phase registers of one qubit or more, one phase qubit).
C17_ExactlyOneProvided ==
    (kind = "QPEGate" /\ args[1].control_qubits >= 1 /\ args[1].phase_qubits = 1) =>
        LET a == args[1]
            thetaGiven == "theta" \in DOMAIN a /\ a.theta # None
            unitaryGiven == "unitary" \in DOMAIN a /\ a.unitary # None
        IN  (qpe = None /\ pc = "raised" /\ exc = "ValueError")
                <=> (thetaGiven <=> unitaryGiven)

\* C18: the sequence frozen by QPEGate.build has no Measure and no Barrier, and
\* is the underlying QPE sequence without its Measures and Barriers, same order
\* and same qubit operands.
C18_GateStripped ==
    (/\ kind = "QPEGate" /\ qpe # None /\ BuildEnded
     /\ qpe[1].unitary = None => IsNumber(qpe[1].theta[1])
     /\ qpe[1].unitary # None =>
           /\ qpe[1].unitary[1].has_power /\ qpe[1].unitary[1].has_control
           /\ qpe[1].unitary[1].width = qpe[1].phase_qubits) =>
        /\ ret # None
        /\ LET d == ret[1].definition
               under == SelectSeq(qpe_circuit[1].data,
                                  LAMBDA ins : ins.name \notin {"measure", "barrier"})
           IN  /\ Positions(d, {"measure", "barrier"}) = {}
               /\ Len(d) = Len(under)
               /\ \A i \in 1..Len(d) :
                     /\ d[i].name = under[i].name
                     /\ d[i].params = under[i].params
                     /\ d[i].qubits = under[i].qubits

\* every operand of every instruction of the circuit is a declared qubit or
\* classical bit, and no instruction names a qubit twice
OperandsInRange(circuit) ==
    \A i \in 1..Len(circuit.data) :
        LET ins == circuit.data[i]
        IN  /\ \A j \in 1..Len(ins.qubits) :
                  ins.qubits[j] >= 0 /\ ins.qubits[j] < circuit.num_qubits
            /\ \A j \in 1..Len(ins.clbits) :
                  ins.clbits[j] >= 0 /\ ins.clbits[j] < circuit.num_clbits
            /\ Cardinality(QubitSet(ins)) = Len(ins.qubits)

\* C19: every operation of every sequence QFT.build or QPE.build puts together
\* refers only to qubits 0..declaredQubitCount-1 and classical bits
\* 0..declaredClassicalBitCount-1, and no operation names a qubit twice.
C19_OperandsInRange ==
    /\ qft_circuit # None => OperandsInRange(qft_circuit[1])
    /\ qpe_circuit # None => OperandsInRange(qpe_circuit[1])
    /\ \A i \in 1..Len(returned) : OperandsInRange(returned[i].circuit)

C19_Witness ==
    /\ kind = "QFT" /\ pc = "done"
    /\ qft[1].qft_qubits = 7 /\ qft[1].do_swaps /\ ~qft[1].inverse
    /\ qft[1].approximation_level = 0 - 1
    /\ ret[1].data[Len(ret[1].data)] = Swap(2, 4)

\* C20: every QFT.build call on one QFT object returns a sequence equal to the
\* one the first call returned, and no step of a later call changes a sequence
\* an earlier call returned.
C20_BuildRepeatable ==
    [][kind' = "QFT" =>
           /\ \A i \in 1..Len(returned) : returned'[i] = returned[i]
           /\ \A i \in 1..Len(returned') : returned'[i].circuit = returned'[1].circuit]_vars

C20_Witness ==
    /\ kind = "QFT" /\ pc = "core"
    /\ Len(returned) = 2
    /\ qft[1].qft_qubits = 3 /\ qft[1].inverse /\ qft[1].do_swaps /\ qft[1].insert_barrier
    /\ Len(returned[2].circuit.data) = 1 + 1 + 3 + 3 + 3
    /\ obj = 3

\* ------------------------------------------------- barriers and saturation
\* C21 as stated: with insertBarrier the sequence holds exactly numQubits
\* Barriers, each right after a control qubit's Hadamard/ControlledPhase group,
\* none before the first Hadamard; without insertBarrier it holds none.
C21_ExactlyNBarriers ==
    Built =>
        LET n == qft[1].qft_qubits
            d == ret[1].data
            bars == Positions(d, {"barrier"})
        IN  IF ~qft[1].insert_barrier
            THEN bars = {}
            ELSE /\ Cardinality(bars) = n
                 /\ \A b \in bars : b > 1 /\ d[b - 1].name \in {"h", "cp"}
                 /\ \A b \in bars : \E i \in Positions(d, {"h"}) : i < b

\* C21 amended: with insertBarrier a Barrier follows each control qubit's
\* Hadamard/ControlledPhase group and, when inverse and doSwaps are both set,
\* one more Barrier follows the pre-swaps, before the first Hadamard; there is
\* no other Barrier (none after the post-swaps), so the sequence holds
\* numQubits Barriers, or numQubits + 1 when inverse and doSwaps.  Without
\* insertBarrier it holds none.
C21_BarrierPlacement ==
    Built =>
        LET n == qft[1].qft_qubits
            d == ret[1].data
            bars == Positions(d, {"barrier"})
            hs == Positions(d, {"h"})
            pre == qft[1].inverse /\ qft[1].do_swaps
            preBar == n \div 2 + 1
        IN  IF ~qft[1].insert_barrier
            THEN bars = {}
            ELSE /\ Cardinality(bars) = n + (IF pre THEN 1 ELSE 0)
                 /\ pre => /\ preBar \in bars
                           /\ \A i \in hs : preBar < i
                           /\ \A i \in 1..(preBar - 1) : d[i].name = "swap"
                 /\ \A b \in bars :
                       (pre /\ b = preBar) \/ (b > 1 /\ d[b - 1].name \in {"h", "cp"})
                 /\ \A i \in hs :
                       \E b \in bars :
                           /\ i < b
                           /\ \A j \in (i + 1)..(b - 1) : d[j].name = "cp"
                 /\ (~qft[1].inverse /\ qft[1].do_swaps /\ n >= 2) => d[Len(d)].name = "swap"

C21_Witness ==
    /\ Built
    /\ qft[1].insert_barrier /\ qft[1].inverse /\ qft[1].do_swaps
    /\ qft[1].qft_qubits = 3
    /\ qft[1].approximation_level = 0
    /\ ret[1].data[2].name = "barrier"
    /\ Len(ret[1].data) = 1 + 4 + 3 + 3

\* C22: an approximationLevel outside 0..numQubits-1 is accepted and saturates:
\* for every level <= 0 the sequence is the level-0 sequence, with all
\* n(n-1)/2 ControlledPhase operations; for every level >= numQubits-1 it has no
\* ControlledPhase, exactly numQubits Hadamards and the configured Swaps.
C22_LevelSaturates ==
    /\ (kind = "QFT" /\ args[1].qft_qubits # None /\ args[1].qft_qubits[1] >= 1) =>
          /\ pc # "raised"
          /\ qft # None /\ qft[1].approximation_level = args[1].approximation_level
    /\ Built =>
          LET self == qft[1]
              n == self.qft_qubits
              k == self.approximation_level
              d == ret[1].data
          IN  /\ k <= 0 =>
                    /\ d = QFT_build([self EXCEPT !.approximation_level = 0]).data
                    /\ Len(Only(d, "cp")) = (n * (n - 1)) \div 2
              /\ k >= n - 1 =>
                    /\ Only(d, "cp") = <<>>
                    /\ Len(Only(d, "h")) = n
                    /\ \A q \in 0..(n - 1) : \E i \in 1..Len(d) : d[i] = H(q)
                    /\ Only(d, "swap") =
                          IF self.do_swaps
                          THEN [i \in 1..(n \div 2) |-> Swap(i - 1, n - i)]
                          ELSE <<>>

C22_Witness ==
    /\ Built
    /\ qft[1].qft_qubits = 4
    /\ qft[1].approximation_level = 6
    /\ qft[1].do_swaps /\ ~qft[1].inverse /\ ~qft[1].insert_barrier
    /\ ret[1].data = <<H(3), H(2), H(1), H(0), Swap(0, 3), Swap(1, 2)>>

C22_WitnessBelow ==
    /\ Built
    /\ qft[1].qft_qubits = 4
    /\ qft[1].approximation_level = 0 - 1
    /\ Len(Only(ret[1].data, "cp")) = 6

====
